---- MODULE Spec2Model ----
(***************************************************************************)
(* Model of the WASM policy engine                                         *)
(*   src/Backend/uars-platform/services/adcf/wasm/policy-engine/src/lib.rs *)
(*                                                                         *)
(* Strings are TLA+ strings; `contains` is real substring search.          *)
(* f64 values (confidence, risk_score) are integers in tenths: 1.0 is 10,  *)
(* 0.9 is 9, 7.0 is 70.  console_log output is a diagnostic side channel   *)
(* that no operation reads back; it is not part of the state.              *)
(***************************************************************************)
EXTENDS Integers, Sequences, FiniteSets, TLC

VARIABLES
    policies,    \* PolicyEngine.policies : Vec<Policy>
    debug_mode,  \* PolicyEngine.debug_mode : bool
    arg,         \* the input of the last call
    ret          \* what the last call returned

vars == <<policies, debug_mode, arg, ret>>

(***************************************************************************)
(* Bounds of the model.                                                    *)
(***************************************************************************)
MaxPolicies == 2   \* resident policies
MaxBatch == 2      \* policies in one load_policies batch
MaxLen == 3        \* results handed to a combining algorithm
MaxFrags == 3      \* fragments concatenated into an expression text

(***************************************************************************)
(* f64 literals of the source, in tenths.                                  *)
(***************************************************************************)
ConfMatched == 10      \* 1.0, a matched rule
ConfNone == 0          \* 0.0, NOTAPPLICABLE and the INDETERMINATE defaults
ConfFresh == 10        \* 1.0, the fresh results of the *-unless-* algorithms
RiskLow == 50          \* "< 5.0"
RiskHigh == 70         \* "> 7.0"

(***************************************************************************)
(* PolicyResult::new                                                       *)
(***************************************************************************)
NewResult(decision, reason, confidence) ==
    [decision |-> decision, reason |-> reason, confidence |-> confidence,
     obligations |-> "[]", advice |-> "[]"]

(***************************************************************************)
(* serde_json::to_string of a Vec<String>: ["a","b"]                       *)
(***************************************************************************)
RECURSIVE JsonItems(_)
JsonItems(s) ==
    IF s = <<>> THEN ""
    ELSE IF Len(s) = 1 THEN "\"" \o s[1] \o "\""
    ELSE "\"" \o s[1] \o "\"," \o JsonItems(Tail(s))

ToJsonString(s) == "[" \o JsonItems(s) \o "]"

(***************************************************************************)
(* str::contains and Vec<String>::contains                                 *)
(***************************************************************************)
Contains(s, p) ==
    \E i \in 1..(Len(s) - Len(p) + 1) : SubSeq(s, i, i + Len(p) - 1) = p

\* Mutant: a role is found when some role merely contains it.
VecContainsSubstring(v, x) == \E i \in 1..Len(v) : Contains(v[i], x)

VecContains(v, x) == \E i \in 1..Len(v) : v[i] = x

\* Mutant: a risk_score text without a recognized comparator is read as
\* the high-risk test instead of falling through.
EvaluateExpressionRiskFallback(expression, context) ==
    IF expression = "" THEN TRUE
    ELSE IF expression = "true" THEN TRUE
    ELSE IF expression = "false" THEN FALSE
    ELSE IF Contains(expression, "user.roles") /\ Contains(expression, "admin")
        THEN VecContains(context.user_roles, "admin")
    ELSE IF Contains(expression, "device.attested") /\ Contains(expression, "true")
        THEN context.device_attested
    ELSE IF Contains(expression, "mfa.verified") /\ Contains(expression, "true")
        THEN context.mfa_verified
    ELSE IF Contains(expression, "business_hours") /\ Contains(expression, "true")
        THEN context.business_hours
    ELSE IF Contains(expression, "risk_score") /\ Contains(expression, "< 5.0")
        THEN context.risk_score < RiskLow
    ELSE IF Contains(expression, "risk_score")
        THEN context.risk_score > RiskHigh
    ELSE IF Contains(expression, "classification")
            /\ Contains(expression, "classified") /\ Contains(expression, "!=")
        THEN context.resource_classification # "classified"
    ELSE IF Contains(expression, "classification")
            /\ Contains(expression, "public") /\ Contains(expression, "==")
        THEN context.resource_classification = "public"
    ELSE FALSE

(***************************************************************************)
(* PolicyEngine::evaluate_expression.  It never returns Err, so the model  *)
(* yields the bool.                                                        *)
(***************************************************************************)
EvaluateExpression(expression, context) ==
    IF expression = "" THEN TRUE
    ELSE IF expression = "true" THEN TRUE
    ELSE IF expression = "false" THEN FALSE
    ELSE IF Contains(expression, "user.roles") /\ Contains(expression, "admin")
        THEN VecContains(context.user_roles, "admin")
    ELSE IF Contains(expression, "device.attested") /\ Contains(expression, "true")
        THEN context.device_attested
    ELSE IF Contains(expression, "mfa.verified") /\ Contains(expression, "true")
        THEN context.mfa_verified
    ELSE IF Contains(expression, "business_hours") /\ Contains(expression, "true")
        THEN context.business_hours
    ELSE IF Contains(expression, "risk_score") /\ Contains(expression, "< 5.0")
        THEN context.risk_score < RiskLow
    ELSE IF Contains(expression, "risk_score") /\ Contains(expression, "> 7.0")
        THEN context.risk_score > RiskHigh
    ELSE IF Contains(expression, "classification")
            /\ Contains(expression, "classified") /\ Contains(expression, "!=")
        THEN context.resource_classification # "classified"
    ELSE IF Contains(expression, "classification")
            /\ Contains(expression, "public") /\ Contains(expression, "==")
        THEN context.resource_classification = "public"
    ELSE FALSE

(***************************************************************************)
(* Iterator::max_by with the partial_cmp comparator: a left fold that      *)
(* keeps the accumulator only when it is strictly greater, so among equal  *)
(* maxima the last one is returned.                                        *)
(***************************************************************************)
RECURSIVE MaxByFold(_, _)
MaxByFold(acc, s) ==
    IF s = <<>> THEN acc
    ELSE MaxByFold(IF acc.confidence > Head(s).confidence THEN acc ELSE Head(s),
                   Tail(s))

\* Mutant: the first member of the bucket is taken, whatever its confidence.
MaxByConfidenceFirst(s) == Head(s)

MaxByConfidence(s) == MaxByFold(Head(s), Tail(s))

Bucket(results, decision) == SelectSeq(results, LAMBDA r : r.decision = decision)

NoApplicableRules == NewResult("INDETERMINATE", "No applicable rules", ConfNone)

PermitOverrides(results) ==
    LET permits == Bucket(results, "PERMIT")
        denies == Bucket(results, "DENY")
        indeterminates == Bucket(results, "INDETERMINATE")
    IN  IF permits # <<>> THEN MaxByConfidence(permits)
        ELSE IF denies # <<>> THEN MaxByConfidence(denies)
        ELSE IF indeterminates # <<>> THEN MaxByConfidence(indeterminates)
        ELSE NoApplicableRules

DenyOverrides(results) ==
    LET permits == Bucket(results, "PERMIT")
        denies == Bucket(results, "DENY")
        indeterminates == Bucket(results, "INDETERMINATE")
    IN  IF denies # <<>> THEN MaxByConfidence(denies)
        ELSE IF permits # <<>> THEN MaxByConfidence(permits)
        ELSE IF indeterminates # <<>> THEN MaxByConfidence(indeterminates)
        ELSE NoApplicableRules

RECURSIVE FirstWithDecision(_, _, _)
FirstWithDecision(results, decision, otherwise) ==
    IF results = <<>> THEN otherwise
    ELSE IF Head(results).decision = decision THEN Head(results)
    ELSE FirstWithDecision(Tail(results), decision, otherwise)

\* Mutant: first-applicable skips every decision the buckets do not know.
FirstApplicableKnown(results) ==
    LET known == SelectSeq(results,
                           LAMBDA r : r.decision \in {"PERMIT", "DENY", "INDETERMINATE"})
    IN  IF known = <<>> THEN NoApplicableRules ELSE Head(known)

RECURSIVE FirstApplicable(_)
FirstApplicable(results) ==
    IF results = <<>> THEN NoApplicableRules
    ELSE IF Head(results).decision # "NOTAPPLICABLE" THEN Head(results)
    ELSE FirstApplicable(Tail(results))

\* Mutant: without a DENY, permit-unless-deny hands back a PERMIT member of
\* the input when there is one.
PermitUnlessDenyMember(results) ==
    FirstWithDecision(results, "DENY",
        FirstWithDecision(results, "PERMIT",
                          NewResult("PERMIT", "Permit unless deny", ConfFresh)))

PermitUnlessDeny(results) ==
    FirstWithDecision(results, "DENY",
                      NewResult("PERMIT", "Permit unless deny", ConfFresh))

\* Mutant: deny-unless-permit falls back to the fresh PERMIT of its mirror.
DenyUnlessPermitFreshPermit(results) ==
    FirstWithDecision(results, "PERMIT",
                      NewResult("PERMIT", "Permit unless deny", ConfFresh))

DenyUnlessPermit(results) ==
    FirstWithDecision(results, "PERMIT",
                      NewResult("DENY", "Deny unless permit", ConfFresh))

\* Mutant: the algorithm name is matched without regard to case.
UpperLetters == "ABCDEFGHIJKLMNOPQRSTUVWXYZ"

LowerLetters == "abcdefghijklmnopqrstuvwxyz"

RECURSIVE ToLower(_)
ToLower(s) ==
    IF s = "" THEN ""
    ELSE LET c == SubSeq(s, 1, 1)
             at == {i \in 1..Len(UpperLetters) : SubSeq(UpperLetters, i, i) = c}
         IN  (IF at = {} THEN c
              ELSE LET i == CHOOSE i \in at : TRUE IN SubSeq(LowerLetters, i, i))
             \o ToLower(SubSeq(s, 2, Len(s)))

CombineRuleResultsIgnoreCase(algorithm, results) ==
    CASE ToLower(algorithm) = "permit-overrides" -> PermitOverrides(results)
      [] ToLower(algorithm) = "deny-overrides" -> DenyOverrides(results)
      [] ToLower(algorithm) = "first-applicable" -> FirstApplicable(results)
      [] ToLower(algorithm) = "permit-unless-deny" -> PermitUnlessDeny(results)
      [] ToLower(algorithm) = "deny-unless-permit" -> DenyUnlessPermit(results)
      [] OTHER -> DenyOverrides(results)

CombineRuleResults(algorithm, results) ==
    CASE algorithm = "permit-overrides" -> PermitOverrides(results)
      [] algorithm = "deny-overrides" -> DenyOverrides(results)
      [] algorithm = "first-applicable" -> FirstApplicable(results)
      [] algorithm = "permit-unless-deny" -> PermitUnlessDeny(results)
      [] algorithm = "deny-unless-permit" -> DenyUnlessPermit(results)
      [] OTHER -> DenyOverrides(results)

\* Mutant: the cross-policy step combines with permit-overrides.
CombinePolicyResultsPermitFirst(results) == PermitOverrides(results)

\* Mutant: the cross-policy step hands on the first applicable policy's result.
CombinePolicyResultsFirst(results) == FirstApplicable(results)

CombinePolicyResults(results) == DenyOverrides(results)

(***************************************************************************)
(* PolicyEngine::evaluate_rule                                             *)
(***************************************************************************)
EvaluateRule(rule, context) ==
    IF EvaluateExpression(rule.condition, context)
    THEN LET result == NewResult(rule.effect,
                                 "Rule '" \o rule.name \o "' matched",
                                 ConfMatched)
         IN  [result EXCEPT
                !.obligations = IF rule.obligations # <<>>
                                THEN ToJsonString(rule.obligations) ELSE @,
                !.advice = IF rule.advice # <<>>
                           THEN ToJsonString(rule.advice) ELSE @]
    ELSE NewResult("NOTAPPLICABLE",
                   "Rule '" \o rule.name \o "' condition not met",
                   ConfNone)

(***************************************************************************)
(* PolicyEngine::evaluate_policy                                           *)
(***************************************************************************)
RuleResults(policy, context) ==
    [i \in 1..Len(policy.rules) |-> EvaluateRule(policy.rules[i], context)]

EvaluatePolicy(policy, context) ==
    CombineRuleResults(policy.combining_algorithm, RuleResults(policy, context))

(***************************************************************************)
(* PolicyEngine::is_policy_applicable                                      *)
(***************************************************************************)
\* Mutant: the target is not consulted.
IsPolicyApplicableAlways(policy, context) == TRUE

IsPolicyApplicable(policy, context) ==
    IF policy.target = "" THEN TRUE
    ELSE EvaluateExpression(policy.target, context)

(***************************************************************************)
(* serde_json::from_str.  A text is a document: whether it is syntactically*)
(* JSON, and the object it spells.  Decoding into a struct fails when the  *)
(* text is not JSON or a field of the struct is missing, and drops the     *)
(* keys the struct does not have.  Only the fields the engine reads are    *)
(* kept in the model's Policy and PolicyContext.                           *)
(***************************************************************************)
PolicyFields == {"target", "rules", "combining_algorithm"}

ContextFields == {"user_roles", "device_attested", "mfa_verified",
                  "business_hours", "risk_score", "resource_classification"}

DecodePolicyObj(obj) ==
    IF PolicyFields \subseteq DOMAIN obj
    THEN [ok |-> TRUE,
          value |-> [target |-> obj.target, rules |-> obj.rules,
                     combining_algorithm |-> obj.combining_algorithm]]
    ELSE [ok |-> FALSE]

DecodePolicy(doc) ==
    IF doc.syntax_ok THEN DecodePolicyObj(doc.obj) ELSE [ok |-> FALSE]

DecodePolicies(doc) ==
    IF doc.syntax_ok /\ \A i \in 1..Len(doc.items) : DecodePolicyObj(doc.items[i]).ok
    THEN [ok |-> TRUE,
          value |-> [i \in 1..Len(doc.items) |-> DecodePolicyObj(doc.items[i]).value]]
    ELSE [ok |-> FALSE]

DecodeContext(doc) ==
    IF doc.syntax_ok /\ ContextFields \subseteq DOMAIN doc.obj
    THEN [ok |-> TRUE,
          value |-> [user_roles |-> doc.obj.user_roles,
                     device_attested |-> doc.obj.device_attested,
                     mfa_verified |-> doc.obj.mfa_verified,
                     business_hours |-> doc.obj.business_hours,
                     risk_score |-> doc.obj.risk_score,
                     resource_classification |-> doc.obj.resource_classification]]
    ELSE [ok |-> FALSE]

(***************************************************************************)
(* The public operations, as functions of the engine state and the input.  *)
(* Each yields the new policy set and the value returned.                  *)
(***************************************************************************)
LoadPolicy(pols, doc) ==
    LET d == DecodePolicy(doc)
    IN  IF d.ok
        THEN [policies |-> Append(pols, d.value),
              ret |-> [op |-> "load_policy", ok |-> TRUE]]
        ELSE [policies |-> pols,
              ret |-> [op |-> "load_policy", ok |-> FALSE,
                       error |-> "Failed to parse policy"]]

\* Mutant: the batch is decoded element by element and the elements before
\* the first bad one are kept.
RECURSIVE DecodablePrefix(_)
DecodablePrefix(items) ==
    IF items = <<>> \/ ~DecodePolicyObj(Head(items)).ok THEN <<>>
    ELSE <<DecodePolicyObj(Head(items)).value>> \o DecodablePrefix(Tail(items))

LoadPoliciesPartial(pols, doc) ==
    LET d == DecodePolicies(doc)
    IN  IF d.ok
        THEN [policies |-> pols \o d.value,
              ret |-> [op |-> "load_policies", ok |-> TRUE]]
        ELSE [policies |-> pols \o DecodablePrefix(doc.items),
              ret |-> [op |-> "load_policies", ok |-> FALSE,
                       error |-> "Failed to parse policies"]]

LoadPolicies(pols, doc) ==
    LET d == DecodePolicies(doc)
    IN  IF d.ok
        THEN [policies |-> pols \o d.value,
              ret |-> [op |-> "load_policies", ok |-> TRUE]]
        ELSE [policies |-> pols,
              ret |-> [op |-> "load_policies", ok |-> FALSE,
                       error |-> "Failed to parse policies"]]

RECURSIVE RuleNames(_)
RuleNames(pols) ==
    IF pols = <<>> THEN <<>>
    ELSE [i \in 1..Len(Head(pols).rules) |-> Head(pols).rules[i].name]
         \o RuleNames(Tail(pols))

NoApplicablePolicies ==
    NewResult("INDETERMINATE", "No applicable policies found", ConfNone)

\* rules_evaluated lists, in order, the rules evaluate_rule was called on.
Evaluate(pols, doc) ==
    LET d == DecodeContext(doc)
        applicable_policies ==
            SelectSeq(pols, LAMBDA p : IsPolicyApplicable(p, d.value))
        policy_results ==
            [i \in 1..Len(applicable_policies) |->
                EvaluatePolicy(applicable_policies[i], d.value)]
    IN  IF ~d.ok
        THEN [op |-> "evaluate", ok |-> FALSE, error |-> "Failed to parse context"]
        ELSE IF applicable_policies = <<>>
        THEN [op |-> "evaluate", ok |-> TRUE, result |-> NoApplicablePolicies,
              rules_evaluated |-> <<>>]
        ELSE [op |-> "evaluate", ok |-> TRUE,
              result |-> CombinePolicyResults(policy_results),
              rules_evaluated |-> RuleNames(applicable_policies)]

(***************************************************************************)
(* Inputs of the engine.  The rules and the first policy shape are those   *)
(* of create_sample_policy; the others add unvalidated effect strings, an  *)
(* unrecognized condition, every combining algorithm and targets.          *)
(***************************************************************************)
Rule(name, condition, effect, obligations, advice) ==
    [name |-> name, condition |-> condition, effect |-> effect,
     obligations |-> obligations, advice |-> advice]

RuleMfa ==
    Rule("Require MFA for classified data",
         "classification == 'classified' && mfa.verified == true",
         "PERMIT", <<"log_access">>, <<"remind_classification">>)

RuleRisk ==
    Rule("Deny high-risk access", "risk_score > 7.0", "DENY",
         <<"alert_security">>, <<>>)

RuleOdd == Rule("odd effect", "true", "Permit", <<>>, <<>>)

RuleNA == Rule("not applicable effect", "", "NOTAPPLICABLE", <<>>, <<"a1", "a2">>)

RuleUnknown ==
    Rule("unrecognized", "user.department == 'research'", "PERMIT", <<>>, <<>>)

RuleLists ==
    { <<>>,
      <<RuleMfa, RuleRisk>>,
      <<RuleRisk, RuleOdd>>,
      <<RuleNA, RuleUnknown>> }

Algorithms ==
    {"permit-overrides", "deny-overrides", "first-applicable",
     "permit-unless-deny", "deny-unless-permit"}

Policy(target, rules, combining_algorithm) ==
    [target |-> target, rules |-> rules,
     combining_algorithm |-> combining_algorithm]

PolicyPool ==
    {Policy("", rl, alg) : rl \in RuleLists, alg \in Algorithms \cup {"custom"}}
    \cup {Policy("device.attested == true", <<RuleMfa, RuleRisk>>, alg) :
            alg \in {"permit-overrides", "permit-unless-deny"}}
    \cup {Policy("resource.kind == 'capsule'", <<RuleOdd>>, "first-applicable")}

\* The policies the state machine loads: the sample rules under each of the
\* five algorithms, and the policies that have a target.
LoadPool ==
    {p \in PolicyPool :
        \/ p.target # ""
        \/ p.rules = <<RuleMfa, RuleRisk>> /\ p.combining_algorithm \in Algorithms}

\* The JSON object of a policy: the struct's fields and the ones the engine
\* only logs.
PolicyObj(p) ==
    [id |-> "policy-001", name |-> "Access Policy", target |-> p.target,
     rules |-> p.rules, combining_algorithm |-> p.combining_algorithm]

NotJson == [syntax_ok |-> FALSE, obj |-> [raw |-> "{"], items |-> <<>>]

NoRulesObj == [id |-> "policy-002", name |-> "No rules field", target |-> ""]

PolicyDocs ==
    {[syntax_ok |-> TRUE, obj |-> PolicyObj(p)] : p \in LoadPool}
    \cup {NotJson, [syntax_ok |-> TRUE, obj |-> NoRulesObj]}

SamplePolicy == Policy("", <<RuleMfa, RuleRisk>>, "deny-overrides")

\* Batches that fail to decode: not JSON, or an element without `rules`
\* before or after a well-formed element.
BadBatchDocs ==
    {NotJson,
     [syntax_ok |-> TRUE, items |-> <<NoRulesObj>>],
     [syntax_ok |-> TRUE, items |-> <<PolicyObj(SamplePolicy), NoRulesObj>>],
     [syntax_ok |-> TRUE, items |-> <<NoRulesObj, PolicyObj(SamplePolicy)>>]}

Context(roles, attested, mfa, hours, risk, classification) ==
    [user_roles |-> roles, device_attested |-> attested, mfa_verified |-> mfa,
     business_hours |-> hours, risk_score |-> risk,
     resource_classification |-> classification]

\* risk_score 3.5 is create_sample_context's; 8.0 is above the 7.0 threshold.
RiskScores == {35, 80}

EngineContexts ==
    {Context(<<"analyst">>, a, m, TRUE, r, "internal") :
        a \in BOOLEAN, m \in BOOLEAN, r \in RiskScores}

ContextObj(c) ==
    [request_id |-> "req-12345", user_roles |-> c.user_roles,
     device_attested |-> c.device_attested, mfa_verified |-> c.mfa_verified,
     business_hours |-> c.business_hours, risk_score |-> c.risk_score,
     resource_classification |-> c.resource_classification]

ContextDocs ==
    {[syntax_ok |-> TRUE, obj |-> ContextObj(c)] : c \in EngineContexts}
    \cup {NotJson, [syntax_ok |-> TRUE, obj |-> [request_id |-> "req-12345"]]}

NoArg == [syntax_ok |-> TRUE, obj |-> [none |-> TRUE]]

(***************************************************************************)
(* The engine as a state machine: PolicyEngine::new, then any sequence of  *)
(* calls of the public operations.                                         *)
(***************************************************************************)
Init ==
    /\ policies = <<>>
    /\ debug_mode = FALSE
    /\ arg = NoArg
    /\ ret = [op |-> "new", ok |-> TRUE]

set_debug_mode ==
    \E debug \in BOOLEAN :
        /\ debug_mode' = debug
        /\ arg' = [syntax_ok |-> TRUE, obj |-> [debug |-> debug]]
        /\ ret' = [op |-> "set_debug_mode", ok |-> TRUE]
        /\ UNCHANGED policies

load_policy ==
    \E doc \in PolicyDocs :
        /\ Len(policies) < MaxPolicies \/ ~DecodePolicy(doc).ok
        /\ policies' = LoadPolicy(policies, doc).policies
        /\ ret' = LoadPolicy(policies, doc).ret
        /\ arg' = doc
        /\ UNCHANGED debug_mode

\* A well-formed batch is taken only while it fits the model's bound.
load_policies ==
    \E doc \in BadBatchDocs \cup
               UNION {{[syntax_ok |-> TRUE,
                        items |-> [i \in 1..n |-> PolicyObj(f[i])]] :
                            f \in [1..n -> LoadPool]} :
                      n \in 0..(IF MaxPolicies - Len(policies) < MaxBatch
                                THEN MaxPolicies - Len(policies) ELSE MaxBatch)} :
        /\ policies' = LoadPolicies(policies, doc).policies
        /\ ret' = LoadPolicies(policies, doc).ret
        /\ arg' = doc
        /\ UNCHANGED debug_mode

evaluate ==
    \E doc \in ContextDocs :
        /\ ret' = Evaluate(policies, doc)
        /\ arg' = doc
        /\ UNCHANGED <<policies, debug_mode>>

clear_policies ==
    /\ policies' = <<>>
    /\ arg' = NoArg
    /\ ret' = [op |-> "clear_policies", ok |-> TRUE]
    /\ UNCHANGED debug_mode

get_policy_count ==
    /\ arg' = NoArg
    /\ ret' = [op |-> "get_policy_count", ok |-> TRUE, count |-> Len(policies)]
    /\ UNCHANGED <<policies, debug_mode>>

Next ==
    \/ set_debug_mode
    \/ load_policy
    \/ load_policies
    \/ evaluate
    \/ clear_policies
    \/ get_policy_count

Spec == Init /\ [][Next]_vars

(***************************************************************************)
(* evaluate as a function of the policy set and the context: every policy  *)
(* set of up to MaxPolicies policies of PolicyPool (each is what a         *)
(* sequence of load_policy calls leaves), every context document.          *)
(***************************************************************************)
InitEval ==
    /\ \E n \in 0..MaxPolicies : policies \in [1..n -> PolicyPool]
    /\ debug_mode = FALSE
    /\ arg = NoArg
    /\ ret = [op |-> "load_policies", ok |-> TRUE]

\* One call per policy set and context.
EvaluateOnce == ret.op # "evaluate" /\ evaluate

SpecEval == InitEval /\ [][EvaluateOnce]_vars

(***************************************************************************)
(* Vocabulary of the properties of evaluate.                               *)
(***************************************************************************)
Evaluated == ret.op = "evaluate" /\ ret.ok

\* The context the last evaluate call decoded.
Ctx == DecodeContext(arg).value

Targeted(p, context) ==
    p.target = "" \/ EvaluateExpression(p.target, context)

ApplicableTo(context) == SelectSeq(policies, LAMBDA p : Targeted(p, context))

PolicyResultsFor(context) ==
    [i \in 1..Len(ApplicableTo(context)) |->
        EvaluatePolicy(ApplicableTo(context)[i], context)]

HasDecision(results, decision) ==
    \E i \in 1..Len(results) : results[i].decision = decision

\* r is what an overrides algorithm with bucket order `order` may return on
\* `results`: a member of maximum confidence of the first non-empty bucket,
\* or the default INDETERMINATE when the three buckets are empty.
IsOverridesChoice(order, results, r) ==
    LET present == {k \in 1..3 : HasDecision(results, order[k])}
    IN  IF present = {}
        THEN r = [decision |-> "INDETERMINATE", reason |-> "No applicable rules",
                  confidence |-> 0, obligations |-> "[]", advice |-> "[]"]
        ELSE LET first == CHOOSE k \in present : \A j \in present : k <= j
             IN  /\ \E i \in 1..Len(results) : results[i] = r
                 /\ r.decision = order[first]
                 /\ \A j \in 1..Len(results) :
                        results[j].decision = order[first]
                            => results[j].confidence <= r.confidence

DenyFirst == <<"DENY", "PERMIT", "INDETERMINATE">>

PermitFirst == <<"PERMIT", "DENY", "INDETERMINATE">>

(***************************************************************************)
(* C1, as stated: the result of every successful evaluate equals           *)
(* deny-overrides applied to the per-policy results of the applicable      *)
(* policies.  It fails when no policy is applicable: the reason is then    *)
(* "No applicable policies found", not deny-overrides' "No applicable      *)
(* rules".                                                                 *)
(***************************************************************************)
C1_AsStated ==
    Evaluated => ret.result = DenyOverrides(PolicyResultsFor(Ctx))

(***************************************************************************)
(* C1, amended: when at least one policy is applicable, the result of      *)
(* evaluate is deny-overrides of the per-policy results in policy-set      *)
(* order, whatever algorithm the policies name, so one DENY policy result  *)
(* makes the decision DENY; when none is applicable the result has         *)
(* deny-overrides' decision and confidence on the empty sequence, with     *)
(* reason "No applicable policies found".                                  *)
(***************************************************************************)
C1_DenyOverridesAcrossPolicies ==
    Evaluated =>
        LET results == PolicyResultsFor(Ctx)
        IN  IF results # <<>>
            THEN /\ ret.result = DenyOverrides(results)
                 /\ IsOverridesChoice(DenyFirst, results, ret.result)
                 /\ HasDecision(results, "DENY") => ret.result.decision = "DENY"
            ELSE /\ ret.result.decision = DenyOverrides(<<>>).decision
                 /\ ret.result.confidence = DenyOverrides(<<>>).confidence
                 /\ ret.result.reason = "No applicable policies found"

\* Two applicable policies, both naming permit-overrides, one yielding DENY
\* and the other PERMIT: the decision is DENY.
C1_Witness ==
    /\ Evaluated
    /\ Len(ApplicableTo(Ctx)) = 2
    /\ \A i \in 1..2 : ApplicableTo(Ctx)[i].combining_algorithm = "permit-overrides"
    /\ PolicyResultsFor(Ctx)[1].decision = "PERMIT"
    /\ PolicyResultsFor(Ctx)[2].decision = "DENY"
    /\ ret.result.decision = "DENY"

(***************************************************************************)
(* C2.  A PERMIT-effect rule of an applicable policy whose condition is    *)
(* true in the context.                                                    *)
(***************************************************************************)
RuleMatched(p, context, effect) ==
    \E i \in 1..Len(p.rules) :
        /\ p.rules[i].effect = effect
        /\ EvaluateExpression(p.rules[i].condition, context)

PermitRuleMatched(context) ==
    \E i \in 1..Len(policies) :
        /\ Targeted(policies[i], context)
        /\ RuleMatched(policies[i], context, "PERMIT")

(***************************************************************************)
(* C2, as stated: evaluate returns PERMIT only if a PERMIT rule of an      *)
(* applicable policy matched.  It fails for an applicable policy that      *)
(* names permit-unless-deny and has no matching DENY rule.                 *)
(***************************************************************************)
C2_AsStated ==
    (Evaluated /\ ret.result.decision = "PERMIT") => PermitRuleMatched(Ctx)

(***************************************************************************)
(* C2, amended: evaluate returns PERMIT only if some applicable policy     *)
(* has a PERMIT rule whose condition is true, or names permit-unless-deny  *)
(* and has no DENY rule whose condition is true.                           *)
(***************************************************************************)
C2_PermitOnlyWhenGranted ==
    (Evaluated /\ ret.result.decision = "PERMIT") =>
        \/ PermitRuleMatched(Ctx)
        \/ \E i \in 1..Len(policies) :
              /\ Targeted(policies[i], Ctx)
              /\ policies[i].combining_algorithm = "permit-unless-deny"
              /\ ~RuleMatched(policies[i], Ctx, "DENY")

\* PERMIT was returned although no PERMIT rule matched: the fresh PERMIT of
\* permit-unless-deny on a policy without rules.
C2_Witness ==
    /\ Evaluated
    /\ ret.result.decision = "PERMIT"
    /\ ret.result.reason = "Permit unless deny"
    /\ ~PermitRuleMatched(Ctx)
    /\ \E i \in 1..Len(policies) :
          policies[i].rules = <<>> /\ Targeted(policies[i], Ctx)

(***************************************************************************)
(* C3: the decision of a successful evaluate is PERMIT, DENY or            *)
(* INDETERMINATE, whatever effect strings the rules carry.                 *)
(***************************************************************************)
C3_DecisionIsOneOfThree ==
    Evaluated => ret.result.decision \in {"PERMIT", "DENY", "INDETERMINATE"}

\* A policy's own result carried a rule's unvalidated effect string.
C3_Witness ==
    /\ Evaluated
    /\ \E i \in 1..Len(PolicyResultsFor(Ctx)) :
          PolicyResultsFor(Ctx)[i].decision = "Permit"
    /\ ret.result.decision = "INDETERMINATE"

(***************************************************************************)
(* C4.  A text that cannot be decoded by the call that received it: it is  *)
(* not JSON, or an object it spells lacks a field of the struct.           *)
(***************************************************************************)
LacksField(obj, fields) == \E f \in fields : f \notin DOMAIN obj

Undecodable(op, doc) ==
    \/ ~doc.syntax_ok
    \/ op = "load_policy" /\ LacksField(doc.obj, PolicyFields)
    \/ op = "load_policies"
        /\ \E i \in 1..Len(doc.items) : LacksField(doc.items[i], PolicyFields)
    \/ op = "evaluate" /\ LacksField(doc.obj, ContextFields)

(***************************************************************************)
(* C4: a load_policy, load_policies or evaluate call whose text cannot be  *)
(* decoded returns an error and leaves the policy set (contents, order,    *)
(* count) and the debug flag as they were; a batch that fails to decode    *)
(* adds none of its policies.                                              *)
(***************************************************************************)
C4_DecodeFailureChangesNothing ==
    [][(/\ ret'.op \in {"load_policy", "load_policies", "evaluate"}
        /\ Undecodable(ret'.op, arg'))
            => /\ ret'.ok = FALSE
               /\ policies' = policies
               /\ Len(policies') = Len(policies)
               /\ debug_mode' = debug_mode]_vars

\* A batch with a well-formed policy ahead of a bad element was refused by
\* an engine that holds a policy and has debug mode on.
C4_Witness ==
    /\ ret.op = "load_policies"
    /\ ~ret.ok
    /\ arg.syntax_ok
    /\ Len(arg.items) = 2
    /\ ~LacksField(arg.items[1], PolicyFields)
    /\ Len(policies) = 1
    /\ debug_mode

(***************************************************************************)
(* C5: after any sequence of loads and clears, when no resident policy is  *)
(* applicable to the context (none resident, or every target non-empty    *)
(* and false), evaluate returns INDETERMINATE, "No applicable policies     *)
(* found", confidence 0.0, and evaluates no rule.                          *)
(***************************************************************************)
NoneApplicable(context) ==
    \A i \in 1..Len(policies) :
        policies[i].target # "" /\ ~EvaluateExpression(policies[i].target, context)

C5_NoApplicablePolicyIsIndeterminate ==
    (Evaluated /\ NoneApplicable(Ctx)) =>
        /\ ret.result = [decision |-> "INDETERMINATE",
                         reason |-> "No applicable policies found",
                         confidence |-> 0, obligations |-> "[]", advice |-> "[]"]
        /\ ret.rules_evaluated = <<>>

\* Policies are resident, none is applicable, and one of them has a rule
\* whose condition is true in the context.
C5_Witness ==
    /\ Evaluated
    /\ policies # <<>>
    /\ NoneApplicable(Ctx)
    /\ \E i \in 1..Len(policies) : \E j \in 1..Len(policies[i].rules) :
          EvaluateExpression(policies[i].rules[j].condition, Ctx)
    /\ ret.result.reason = "No applicable policies found"

(***************************************************************************)
(* The combining algorithms as functions of a sequence of results.  Every  *)
(* sequence of up to MaxLen results is an input; the i-th result carries   *)
(* reason "r<i>" and obligations ["o<i>"], so that equal decisions and     *)
(* confidences at different positions stay distinguishable.                *)
(***************************************************************************)
Decisions == {"PERMIT", "DENY", "INDETERMINATE", "NOTAPPLICABLE", "Permit"}

\* 0.4, 0.9 and 1.0
Confidences == {4, 9, 10}

ResultAt(i, decision, confidence) ==
    [decision |-> decision, reason |-> "r" \o ToString(i),
     confidence |-> confidence,
     obligations |-> ToJsonString(<<"o" \o ToString(i)>>), advice |-> "[]"]

\* The five recognized names, the empty name, names that differ from a
\* recognized one in case or punctuation, and an unrelated name.
AlgorithmNames ==
    Algorithms \cup {"", "Deny-Overrides", "PERMIT-OVERRIDES", "First-Applicable",
                     "Permit-Unless-Deny", "deny_unless_permit", "custom"}

InitCombine ==
    /\ policies = <<>>
    /\ debug_mode = FALSE
    /\ \E n \in 0..MaxLen : \E f \in [1..n -> Decisions \X Confidences] :
          arg = [results |-> [i \in 1..n |-> ResultAt(i, f[i][1], f[i][2])]]
    /\ ret = [op |-> "none"]

Returns(op, out) ==
    /\ ret.op = "none"
    /\ ret' = [op |-> op, out |-> out]
    /\ UNCHANGED <<policies, debug_mode, arg>>

permit_overrides == Returns("permit_overrides", PermitOverrides(arg.results))

deny_overrides == Returns("deny_overrides", DenyOverrides(arg.results))

first_applicable == Returns("first_applicable", FirstApplicable(arg.results))

permit_unless_deny == Returns("permit_unless_deny", PermitUnlessDeny(arg.results))

deny_unless_permit == Returns("deny_unless_permit", DenyUnlessPermit(arg.results))

combine_rule_results ==
    \E algorithm \in AlgorithmNames :
        /\ ret.op = "none"
        /\ ret' = [op |-> "combine_rule_results", algorithm |-> algorithm,
                   out |-> CombineRuleResults(algorithm, arg.results)]
        /\ UNCHANGED <<policies, debug_mode, arg>>

NextCombine ==
    \/ permit_overrides
    \/ deny_overrides
    \/ first_applicable
    \/ permit_unless_deny
    \/ deny_unless_permit
    \/ combine_rule_results

SpecCombine == InitCombine /\ [][NextCombine]_vars

(***************************************************************************)
(* Vocabulary of the properties of the combining algorithms.               *)
(***************************************************************************)
DefaultIndeterminate ==
    [decision |-> "INDETERMINATE", reason |-> "No applicable rules",
     confidence |-> 0, obligations |-> "[]", advice |-> "[]"]

\* The positions of `results` whose decision satisfies Test.
Positions(results, Test(_)) == {i \in 1..Len(results) : Test(results[i].decision)}

Lowest(S) == CHOOSE i \in S : \A j \in S : i <= j

\* The decisions and confidences of the input, position by position.
Shape(results) ==
    [i \in 1..Len(results) |-> <<results[i].decision, results[i].confidence>>]

ExampleShape == <<<<"PERMIT", 4>>, <<"PERMIT", 9>>, <<"DENY", 10>>>>

(***************************************************************************)
(* C6: permit-overrides returns, unchanged, a member of maximum confidence *)
(* of the first non-empty bucket in the order PERMIT, DENY, INDETERMINATE, *)
(* deny-overrides the same in the order DENY, PERMIT, INDETERMINATE;       *)
(* other decisions contribute nothing, and with the three buckets empty    *)
(* both return INDETERMINATE, "No applicable rules", 0.0.  On              *)
(* [PERMIT(0.4), PERMIT(0.9), DENY(1.0)] permit-overrides returns the      *)
(* PERMIT with confidence 0.9 and deny-overrides the DENY.                 *)
(***************************************************************************)
C6_OverridesPickMaxOfFirstBucket ==
    /\ ret.op = "permit_overrides" =>
          /\ IsOverridesChoice(PermitFirst, arg.results, ret.out)
          /\ Shape(arg.results) = ExampleShape => ret.out = arg.results[2]
    /\ ret.op = "deny_overrides" =>
          /\ IsOverridesChoice(DenyFirst, arg.results, ret.out)
          /\ Shape(arg.results) = ExampleShape => ret.out = arg.results[3]

\* permit-overrides ran on the example and returned the PERMIT of 0.9.
C6_Witness ==
    /\ ret.op = "permit_overrides"
    /\ Shape(arg.results) = ExampleShape
    /\ ret.out.decision = "PERMIT"
    /\ ret.out.confidence = 9

(***************************************************************************)
(* C7: first-applicable returns, unchanged, the element at the lowest      *)
(* index whose decision is not NOTAPPLICABLE, whatever the confidences and *)
(* the later elements; when there is none it returns INDETERMINATE,        *)
(* "No applicable rules", 0.0.                                             *)
(***************************************************************************)
C7_FirstApplicableIsFirstNonNA ==
    ret.op = "first_applicable" =>
        LET at == Positions(arg.results, LAMBDA d : d # "NOTAPPLICABLE")
        IN  IF at = {} THEN ret.out = DefaultIndeterminate
            ELSE ret.out = arg.results[Lowest(at)]

\* The element returned follows a NOTAPPLICABLE one and precedes a DENY of
\* higher confidence.
C7_Witness ==
    /\ ret.op = "first_applicable"
    /\ Len(arg.results) = 3
    /\ arg.results[1].decision = "NOTAPPLICABLE"
    /\ arg.results[2].decision = "PERMIT"
    /\ arg.results[3].decision = "DENY"
    /\ arg.results[3].confidence > arg.results[2].confidence
    /\ ret.out = arg.results[2]

(***************************************************************************)
(* C8: permit-unless-deny returns the first DENY of the input unchanged,   *)
(* and without a DENY a fresh PERMIT, "Permit unless deny", 1.0, empty     *)
(* obligations and advice, which is no member of the input;                *)
(* deny-unless-permit mirrors it with the first PERMIT and a fresh DENY,   *)
(* "Deny unless permit", 1.0.                                              *)
(***************************************************************************)
C8_UnlessAlgorithms ==
    /\ ret.op = "permit_unless_deny" =>
          LET at == Positions(arg.results, LAMBDA d : d = "DENY")
          IN  IF at # {} THEN ret.out = arg.results[Lowest(at)]
              ELSE /\ ret.out = [decision |-> "PERMIT",
                                 reason |-> "Permit unless deny",
                                 confidence |-> 10,
                                 obligations |-> "[]", advice |-> "[]"]
                   /\ \A i \in 1..Len(arg.results) : arg.results[i] # ret.out
    /\ ret.op = "deny_unless_permit" =>
          LET at == Positions(arg.results, LAMBDA d : d = "PERMIT")
          IN  IF at # {} THEN ret.out = arg.results[Lowest(at)]
              ELSE /\ ret.out = [decision |-> "DENY",
                                 reason |-> "Deny unless permit",
                                 confidence |-> 10,
                                 obligations |-> "[]", advice |-> "[]"]
                   /\ \A i \in 1..Len(arg.results) : arg.results[i] # ret.out

\* permit-unless-deny ran on [PERMIT, PERMIT] and returned the fresh PERMIT.
C8_Witness ==
    /\ ret.op = "permit_unless_deny"
    /\ Len(arg.results) = 2
    /\ \A i \in 1..2 : arg.results[i].decision = "PERMIT"
    /\ ret.out.reason = "Permit unless deny"

(***************************************************************************)
(* C9: under every algorithm name other than the five recognized ones,     *)
(* the empty name and names differing only in case included, combining     *)
(* the rule results yields exactly what deny-overrides yields on them.     *)
(***************************************************************************)
C9_UnknownNameIsDenyOverrides ==
    (ret.op = "combine_rule_results" /\ ret.algorithm \notin Algorithms) =>
        /\ ret.out = DenyOverrides(arg.results)
        /\ IsOverridesChoice(DenyFirst, arg.results, ret.out)

\* A name that differs from permit-overrides only in case combined a PERMIT
\* and a DENY into the DENY.
C9_Witness ==
    /\ ret.op = "combine_rule_results"
    /\ ret.algorithm = "PERMIT-OVERRIDES"
    /\ HasDecision(arg.results, "PERMIT")
    /\ HasDecision(arg.results, "DENY")
    /\ ret.out.decision = "DENY"

(***************************************************************************)
(* The expression evaluator as a function of the text and the context.     *)
(* A text is a concatenation of up to MaxFrags fragments, so the patterns  *)
(* occur alone, together, negated, in any order and split over fragments.  *)
(***************************************************************************)
Fragments ==
    {"user.roles", "admin", "Admin", "ad", "min", "!", "true", "false",
     "device.attested == true", "mfa.verified == true",
     "business_hours == true", "risk_score < 5.0",
     "classification != classified", "risk_score >= 6.0",
     "classification == public"}

RECURSIVE Texts(_)
Texts(n) ==
    IF n = 0 THEN {""}
    ELSE Texts(n - 1) \cup {t \o f : t \in Texts(n - 1), f \in Fragments}

\* Contexts in which the role test and the later patterns disagree.
ExpressionContexts ==
    {Context(<<"admin">>, FALSE, FALSE, FALSE, 60, "classified"),
     Context(<<"Admin", "administrator">>, TRUE, TRUE, TRUE, 35, "public"),
     Context(<<"analyst", "admin">>, TRUE, FALSE, TRUE, 80, "internal"),
     Context(<<>>, FALSE, TRUE, FALSE, 35, "classified")}

InitExpr ==
    /\ policies = <<>>
    /\ debug_mode = FALSE
    /\ arg \in {[expression |-> e, context |-> c] :
                    e \in Texts(MaxFrags), c \in ExpressionContexts}
    /\ ret = [op |-> "none"]

evaluate_expression ==
    /\ ret.op = "none"
    /\ ret' = [op |-> "evaluate_expression",
               out |-> EvaluateExpression(arg.expression, arg.context)]
    /\ UNCHANGED <<policies, debug_mode, arg>>

\* evaluate_rule on a PERMIT rule whose condition is the text.
evaluate_rule ==
    /\ ret.op = "none"
    /\ ret' = [op |-> "evaluate_rule",
               out |-> EvaluateRule(Rule("r", arg.expression, "PERMIT", <<>>, <<>>),
                                    arg.context)]
    /\ UNCHANGED <<policies, debug_mode, arg>>

NextExpr ==
    \/ evaluate_expression
    \/ evaluate_rule

SpecExpr == InitExpr /\ [][NextExpr]_vars

(***************************************************************************)
(* Vocabulary of the properties of the expression evaluator.               *)
(***************************************************************************)
Occurs(p, s) ==
    \E k \in 0..(Len(s) - Len(p)) : SubSeq(s, k + 1, k + Len(p)) = p

HasRole(context, role) ==
    \E i \in DOMAIN context.user_roles : context.user_roles[i] = role

(***************************************************************************)
(* C10: for every text that contains "user.roles" and "admin", the         *)
(* evaluator returns true iff user_roles contains exactly "admin",         *)
(* whatever else the text contains: the later patterns it also satisfies   *)
(* and any negation or comparator in it make no difference.                *)
(***************************************************************************)
C10_AdminRoleCheckFirst ==
    (/\ ret.op = "evaluate_expression"
     /\ Occurs("user.roles", arg.expression)
     /\ Occurs("admin", arg.expression))
        => (ret.out <=> HasRole(arg.context, "admin"))

\* The text also satisfies the device.attested pattern, the device is
\* attested, no role is exactly "admin", and the evaluator returned false.
C10_Witness ==
    /\ ret.op = "evaluate_expression"
    /\ Occurs("user.roles", arg.expression)
    /\ Occurs("admin", arg.expression)
    /\ Occurs("device.attested == true", arg.expression)
    /\ arg.context.device_attested
    /\ HasRole(arg.context, "administrator")
    /\ ret.out = FALSE

(***************************************************************************)
(* C11.  A text that checks 1-7 do not match, that contains "risk_score"   *)
(* and contains neither "< 5.0" nor "> 7.0".                               *)
(***************************************************************************)
BothOccur(p, q, s) == Occurs(p, s) /\ Occurs(q, s)

RiskWithoutComparator(s) ==
    /\ s \notin {"", "true", "false"}
    /\ ~BothOccur("user.roles", "admin", s)
    /\ ~BothOccur("device.attested", "true", s)
    /\ ~BothOccur("mfa.verified", "true", s)
    /\ ~BothOccur("business_hours", "true", s)
    /\ Occurs("risk_score", s)
    /\ ~Occurs("< 5.0", s)
    /\ ~Occurs("> 7.0", s)

\* What the classification patterns make of the text, FALSE when neither
\* applies.
ClassificationOrDefault(s, context) ==
    IF Occurs("classification", s) /\ BothOccur("classified", "!=", s)
    THEN context.resource_classification # "classified"
    ELSE IF Occurs("classification", s) /\ BothOccur("public", "==", s)
    THEN context.resource_classification = "public"
    ELSE FALSE

(***************************************************************************)
(* C11, as stated: such a text evaluates to false, and a rule with it as   *)
(* condition is NOTAPPLICABLE.  It fails for a text that also satisfies a  *)
(* classification pattern: the risk_score block falls through to the       *)
(* classification check, not to the default.                               *)
(***************************************************************************)
C11_AsStated ==
    RiskWithoutComparator(arg.expression) =>
        /\ ret.op = "evaluate_expression" => ret.out = FALSE
        /\ ret.op = "evaluate_rule" => ret.out.decision = "NOTAPPLICABLE"

(***************************************************************************)
(* C11, amended: such a text evaluates to what the classification          *)
(* patterns make of it when it satisfies one of them, and otherwise falls  *)
(* through to the default and evaluates to false; a rule with it as        *)
(* condition is NOTAPPLICABLE exactly when it evaluates to false.          *)
(***************************************************************************)
C11_RiskWithoutComparatorFallsThrough ==
    RiskWithoutComparator(arg.expression) =>
        LET value == ClassificationOrDefault(arg.expression, arg.context)
        IN  /\ ret.op = "evaluate_expression" => ret.out = value
            /\ ret.op = "evaluate_rule" =>
                  /\ ret.out.decision = (IF value THEN "PERMIT" ELSE "NOTAPPLICABLE")
                  /\ ~Occurs("classification", arg.expression)
                        => ret.out.decision = "NOTAPPLICABLE"

\* A rule whose condition compares risk_score with an unrecognized
\* comparator, and names no classification, was NOTAPPLICABLE for a
\* context whose risk score is above 7.0.
C11_Witness ==
    /\ ret.op = "evaluate_rule"
    /\ RiskWithoutComparator(arg.expression)
    /\ Occurs("risk_score >= 6.0", arg.expression)
    /\ ~Occurs("classification", arg.expression)
    /\ arg.context.risk_score > 70
    /\ ret.out.decision = "NOTAPPLICABLE"
    /\ ret.out.confidence = 0

====
